---- MODULE Spec2Model ----
(***************************************************************************)
(* Stocks-Sentiment-Analysis, src/main.py: the /sentiment request          *)
(* pipeline get_news -> parse_news -> score_news -> plot_hourly_sentiment  *)
(* -> plot_daily_sentiment -> render_template, as a state machine with one *)
(* program counter and one set of local variables per request.             *)
(*                                                                         *)
(* Timestamps are minutes since Dec-01-23 00:00; compound scores are in    *)
(* tenths; a mean is an exact fraction num/den in lowest terms, or NaN.    *)
(***************************************************************************)
EXTENDS Integers, Sequences, FiniteSets, TLC

VARIABLES pc, news_table, i, date, parsed_news, df, parsed_news_df,
          parsed_and_scored_news, fig_hourly, fig_daily, error, response

vars == <<pc, news_table, i, date, parsed_news, df, parsed_news_df,
          parsed_and_scored_news, fig_hourly, fig_daily, error, response>>

\* ------------------------------------------------------------- bounds
\* Rows of a fetched news table, one request at a time.
MaxRows == 3
\* Rows of a fetched news table when two requests run interleaved.
MaxRowsConc == 2

Requests == {1, 2}

\* ------------------------------------------------------ program constants
\* resample('H') and resample('D'): the bucket widths, in minutes.
MinutesPerHour == 60
MinutesPerDay == 1440

\* --------------------------------------------------------------- inputs
\* x.a is None / x.td is None
NoLink == "<no a>"
NoCell == <<"<no td>">>
\* A local name that has not been assigned yet.
Unbound == "<unbound>"

\* The text of a row's first cell, as pieces: tokens and runs of whitespace.
Cells ==
  { NoCell,
    <<" ">>,
    <<"09:45AM">>,
    <<"11:10AM", " ">>,
    <<"Dec-01-23", " ", "09:05AM">>,
    <<"Dec-03-23", " ", "09:05AM", " ">>,
    <<"Dec-01-23", " ", "soon">> }

Links == { NoLink, "h1", "h2" }

Rows == [a : Links, td : Cells]

Pages == UNION { [1..n -> Rows] : n \in 0..MaxRows }

\* The rows the interleaved runs draw from: a dated row, two undated rows, a
\* dated row without a link, a row of a later day.
RowsConc ==
  { [a |-> "h1", td |-> <<"Dec-01-23", " ", "09:05AM">>],
    [a |-> "h2", td |-> <<"09:45AM">>],
    [a |-> NoLink, td |-> <<"Dec-03-23", " ", "09:05AM", " ">>],
    [a |-> "h1", td |-> <<"Dec-03-23", " ", "09:05AM", " ">>] }

PagesConc == UNION { [1..n -> RowsConc] : n \in 0..MaxRowsConc }

\* ------------------------------------------------------------ libraries
\* str.split(): the whitespace-separated tokens of a text.
Split(text) == SelectSeq(text, LAMBDA p : p # " ")

\* The day a date token names, -1 when it is no date.
DayOf(tok) ==
  CASE tok = "Dec-01-23" -> 0
    [] tok = "Dec-03-23" -> 2
    [] OTHER -> -1

\* The minute of the day a time token names, -1 when it is no time.
MinuteOf(tok) ==
  CASE tok = "09:05AM" -> 545
    [] tok = "09:45AM" -> 585
    [] tok = "11:10AM" -> 670
    [] OTHER -> -1

\* pd.to_datetime(date + ' ' + time) of one string: can it be parsed, and to what.
Parseable(d, t) == DayOf(d) >= 0 /\ MinuteOf(t) >= 0
ToDatetime(d, t) == DayOf(d) * MinutesPerDay + MinuteOf(t)

\* vader.polarity_scores(headline): an opaque oracle, fixed per headline.
PolarityScores(h) ==
  CASE h = "h1" -> [neg |-> 0, neu |-> 4, pos |-> 6, compound |-> 6]
    [] h = "h2" -> [neg |-> 3, neu |-> 7, pos |-> 0, compound |-> -1]
    [] OTHER    -> [neg |-> 0, neu |-> 10, pos |-> 0, compound |-> 0]

\* --------------------------------------------------------- parse_news
\* A DataFrame of parse_news: the rows [date, time, headline] and, once line 78
\* has run, the datetime column (one value per row).
NoFrame == [bound |-> FALSE, rows |-> <<>>, datetime |-> <<>>]

\* Variant of ParseNewsEntry: date = 'Dec-01-23' before the loop.
ParseNewsEntryDated ==
  [date |-> "Dec-01-23", parsed_news |-> <<>>, df |-> NoFrame]
\* Variant of ParseNewsEntry: parsed_news_df = pd.DataFrame() before the loop.
ParseNewsEntryFrame ==
  [date |-> Unbound, parsed_news |-> <<>>,
   df |-> [bound |-> TRUE, rows |-> <<>>, datetime |-> <<>>]]
\* The locals of parse_news at its entry: parsed_news = [] (line 63); date and
\* parsed_news_df are names not assigned yet.
ParseNewsEntry == [date |-> Unbound, parsed_news |-> <<>>, df |-> NoFrame]

\* Variant of NextDate: only the first date seen is ever taken.
NextDateKeepFirst(carried, date_scrape) ==
  IF Len(date_scrape) = 1 \/ carried # Unbound THEN carried ELSE date_scrape[1]
\* Lines 69-73: the date after a row's cell was read; a one-token cell leaves
\* the carried date alone.
NextDate(carried, date_scrape) ==
  IF Len(date_scrape) = 1 THEN carried ELSE date_scrape[1]

\* Variant of Recovered: a bare `except:`.
RecoveredAny(exc) == TRUE
\* Line 80: the exceptions the loop's handler catches (and skips the row on).
Recovered(exc) == exc = "AttributeError"

\* The locals as a statement that raises leaves them.
Raise(d, pn, fr, exc, line) ==
  [date |-> d, parsed_news |-> pn, df |-> fr, exc |-> exc, line |-> line]

\* Lines 66-79: the body of the try for one row x, from the locals (d, pn, fr).
\* exc is "none" when the body ran to its end.
RowBody(d, pn, fr, x) ==
  IF x.a = NoLink THEN Raise(d, pn, fr, "AttributeError", 66)
  ELSE IF x.td = NoCell THEN Raise(d, pn, fr, "AttributeError", 67)
  ELSE
    LET date_scrape == Split(x.td)
    IN  IF Len(date_scrape) = 0 THEN Raise(d, pn, fr, "IndexError", 72)
        ELSE
          LET d1 == NextDate(d, date_scrape)
              time == IF Len(date_scrape) = 1 THEN date_scrape[1]
                                               ELSE date_scrape[2]
          IN  IF d1 = Unbound THEN Raise(d1, pn, fr, "UnboundLocalError", 75)
              ELSE
                LET pn1 == Append(pn, [date |-> d1, time |-> time,
                                       headline |-> x.a])
                    fr1 == [bound |-> TRUE, rows |-> pn1, datetime |-> <<>>]
                IN  IF \E k \in 1..Len(pn1) :
                           ~Parseable(pn1[k].date, pn1[k].time)
                    THEN Raise(d1, pn1, fr1, "ValueError", 78)
                    ELSE Raise(d1, pn1,
                               [fr1 EXCEPT !.datetime =
                                  [k \in 1..Len(pn1) |->
                                     ToDatetime(pn1[k].date, pn1[k].time)]],
                               "none", 0)

\* ---------------------------------------------------------- score_news
\* Variant of Scores: the score list in the opposite order to the frame.
ScoresReversed(fr) ==
  [k \in 1..Len(fr.rows) |->
     PolarityScores(fr.rows[Len(fr.rows) + 1 - k].headline)]
\* Line 99: one score record per headline, in the frame's order.
Scores(fr) == [k \in 1..Len(fr.rows) |-> PolarityScores(fr.rows[k].headline)]

\* Lines 104-108: join on the row index, index by datetime, drop date and time,
\* rename compound.
JoinScores(fr, scores) ==
  [k \in 1..Len(fr.rows) |->
     [datetime |-> fr.datetime[k],
      headline |-> fr.rows[k].headline,
      neg |-> scores[k].neg, neu |-> scores[k].neu, pos |-> scores[k].pos,
      sentiment_score |-> scores[k].compound]]

\* ------------------------------------------------------------ resample
RECURSIVE Gcd(_, _)
Gcd(a, b) == IF b = 0 THEN a ELSE Gcd(b, a % b)
Abs(n) == IF n < 0 THEN -n ELSE n

NaN == [nan |-> TRUE, num |-> 0, den |-> 1]
\* Variant of Ratio: integer division.
RatioTrunc(sum, n) == [nan |-> FALSE, num |-> sum \div n, den |-> 1]
\* sum / n, exactly, in lowest terms.
Ratio(sum, n) ==
  LET g == Gcd(Abs(sum), n)
  IN  [nan |-> FALSE, num |-> sum \div g, den |-> n \div g]

RECURSIVE SumOver(_, _)
\* The sum of sentiment_score over the rows of `scored` at the indexes in S.
SumOver(scored, S) ==
  IF S = {} THEN 0
  ELSE LET k == CHOOSE x \in S : TRUE
       IN  scored[k].sentiment_score + SumOver(scored, S \ {k})

Floor(t, freq) == t - (t % freq)

\* The rows of `scored` whose datetime lies in [start, start + freq).
Members(scored, start, freq) ==
  { k \in 1..Len(scored) :
      scored[k].datetime >= start /\ scored[k].datetime < start + freq }

MeanOf(scored, S) ==
  IF S = {} THEN NaN ELSE Ratio(SumOver(scored, S), Cardinality(S))

\* Variant of Resample: a groupby on the floor, bins without rows left out.
ResamplePopulated(scored, freq) ==
  LET floors == { Floor(scored[k].datetime, freq) : k \in 1..Len(scored) }
      RECURSIVE Asc(_)
      Asc(S) == IF S = {} THEN <<>>
                ELSE LET m == CHOOSE x \in S : \A y \in S : x <= y
                     IN  <<[bucket_start |-> m,
                            mean |-> MeanOf(scored, Members(scored, m, freq))]>>
                         \o Asc(S \ {m})
  IN  Asc(floors)
\* DataFrame.resample(freq).mean(): one bin per interval from the first floor to
\* the last, ascending, each with the mean of its rows (NaN when it has none).
Resample(scored, freq) ==
  IF Len(scored) = 0 THEN <<>>
  ELSE
    LET floors == { Floor(scored[k].datetime, freq) : k \in 1..Len(scored) }
        first == CHOOSE x \in floors : \A y \in floors : x <= y
        last == CHOOSE x \in floors : \A y \in floors : x >= y
    IN  [b \in 1..((last - first) \div freq + 1) |->
           [bucket_start |-> first + (b - 1) * freq,
            mean |-> MeanOf(scored,
                            Members(scored, first + (b - 1) * freq, freq))]]

\* Line 125: resample('H').mean().
HourlyMeans(scored) == Resample(scored, MinutesPerHour)
\* Variant of DailyMeans: 'H' where line 143 has 'D'.
DailyMeansHourly(scored) == Resample(scored, MinutesPerHour)
\* Line 143: resample('D').mean().
DailyMeans(scored) == Resample(scored, MinutesPerDay)

\* ------------------------------------------------------------ sentiment
\* Variant of DateSlot: `date` as one module-level name shared by all requests.
DateSlotGlobal(r) == 1
\* Where request r's local `date` of parse_news lives: in r's own frame.
DateSlot(r) == r

NoError == [exc |-> "none", line |-> 0]
NoResponse == [status |-> "none", table |-> <<>>, hourly |-> <<>>, daily |-> <<>>]

Init ==
  /\ pc = [r \in Requests |-> "idle"]
  /\ news_table = [r \in Requests |-> <<>>]
  /\ i = [r \in Requests |-> 0]
  /\ date = [r \in Requests |-> Unbound]
  /\ parsed_news = [r \in Requests |-> <<>>]
  /\ df = [r \in Requests |-> NoFrame]
  /\ parsed_news_df = [r \in Requests |-> NoFrame]
  /\ parsed_and_scored_news = [r \in Requests |-> <<>>]
  /\ fig_hourly = [r \in Requests |-> <<>>]
  /\ fig_daily = [r \in Requests |-> <<>>]
  /\ error = [r \in Requests |-> NoError]
  /\ response = [r \in Requests |-> NoResponse]

\* Lines 159-161: a POST /sentiment arrives, get_news returns the page's news
\* table and parse_news is entered. A server that is not threaded takes a
\* request only when no other is in flight.
GetNews(r, pages, threaded) ==
  /\ pc[r] = "idle"
  /\ threaded \/ \A q \in Requests \ {r} : pc[q] = "idle"
  /\ \E page \in pages : news_table' = [news_table EXCEPT ![r] = page]
  /\ pc' = [pc EXCEPT ![r] = "parse"]
  /\ i' = [i EXCEPT ![r] = 1]
  /\ date' = [date EXCEPT ![DateSlot(r)] = ParseNewsEntry.date]
  /\ parsed_news' = [parsed_news EXCEPT ![r] = ParseNewsEntry.parsed_news]
  /\ df' = [df EXCEPT ![r] = ParseNewsEntry.df]
  /\ UNCHANGED <<parsed_news_df, parsed_and_scored_news, fig_hourly,
                 fig_daily, error, response>>

\* Lines 64-81: one iteration of the loop over the table's rows. An exception
\* the handler does not catch leaves parse_news and sentiment.
ParseRow(r) ==
  /\ pc[r] = "parse"
  /\ i[r] <= Len(news_table[r])
  /\ LET out == RowBody(date[DateSlot(r)], parsed_news[r], df[r],
                        news_table[r][i[r]])
     IN  IF out.exc = "none" \/ Recovered(out.exc)
         THEN /\ date' = [date EXCEPT ![DateSlot(r)] = out.date]
              /\ parsed_news' = [parsed_news EXCEPT ![r] = out.parsed_news]
              /\ df' = [df EXCEPT ![r] = out.df]
              /\ i' = [i EXCEPT ![r] = i[r] + 1]
              /\ UNCHANGED <<pc, error>>
         ELSE /\ date' = [date EXCEPT ![DateSlot(r)] = Unbound]
              /\ parsed_news' = [parsed_news EXCEPT ![r] = <<>>]
              /\ df' = [df EXCEPT ![r] = NoFrame]
              /\ i' = [i EXCEPT ![r] = 0]
              /\ pc' = [pc EXCEPT ![r] = "failed"]
              /\ error' = [error EXCEPT ![r] =
                             [exc |-> out.exc, line |-> out.line]]
  /\ UNCHANGED <<news_table, parsed_news_df, parsed_and_scored_news,
                 fig_hourly, fig_daily, response>>

\* Line 83 and line 161: parse_news returns its frame, or fails on the name
\* parsed_news_df when no row ever bound it.
ParseReturn(r) ==
  /\ pc[r] = "parse"
  /\ i[r] > Len(news_table[r])
  /\ IF df[r].bound
     THEN /\ parsed_news_df' = [parsed_news_df EXCEPT ![r] = df[r]]
          /\ pc' = [pc EXCEPT ![r] = "score"]
          /\ UNCHANGED error
     ELSE /\ pc' = [pc EXCEPT ![r] = "failed"]
          /\ error' = [error EXCEPT ![r] =
                         [exc |-> "UnboundLocalError", line |-> 83]]
          /\ UNCHANGED parsed_news_df
  /\ date' = [date EXCEPT ![DateSlot(r)] = Unbound]
  /\ parsed_news' = [parsed_news EXCEPT ![r] = <<>>]
  /\ df' = [df EXCEPT ![r] = NoFrame]
  /\ i' = [i EXCEPT ![r] = 0]
  /\ UNCHANGED <<news_table, parsed_and_scored_news, fig_hourly, fig_daily,
                 response>>

\* Lines 97-110 and line 162. set_index('datetime') (line 105) needs the column
\* line 78 adds; every frame parse_news returns has it.
ScoreNews(r) ==
  /\ pc[r] = "score"
  /\ IF Len(parsed_news_df[r].datetime) = Len(parsed_news_df[r].rows)
     THEN /\ parsed_and_scored_news' =
               [parsed_and_scored_news EXCEPT ![r] =
                  JoinScores(parsed_news_df[r], Scores(parsed_news_df[r]))]
          /\ pc' = [pc EXCEPT ![r] = "hourly"]
          /\ UNCHANGED error
     ELSE /\ pc' = [pc EXCEPT ![r] = "failed"]
          /\ error' = [error EXCEPT ![r] = [exc |-> "KeyError", line |-> 105]]
          /\ UNCHANGED parsed_and_scored_news
  /\ UNCHANGED <<news_table, i, date, parsed_news, df, parsed_news_df,
                 fig_hourly, fig_daily, response>>

\* Lines 125-128 and line 163.
PlotHourlySentiment(r) ==
  /\ pc[r] = "hourly"
  /\ fig_hourly' = [fig_hourly EXCEPT ![r] =
                      HourlyMeans(parsed_and_scored_news[r])]
  /\ pc' = [pc EXCEPT ![r] = "daily"]
  /\ UNCHANGED <<news_table, i, date, parsed_news, df, parsed_news_df,
                 parsed_and_scored_news, fig_daily, error, response>>

\* Lines 143-146 and line 164.
PlotDailySentiment(r) ==
  /\ pc[r] = "daily"
  /\ fig_daily' = [fig_daily EXCEPT ![r] =
                     DailyMeans(parsed_and_scored_news[r])]
  /\ pc' = [pc EXCEPT ![r] = "render"]
  /\ UNCHANGED <<news_table, i, date, parsed_news, df, parsed_news_df,
                 parsed_and_scored_news, fig_hourly, error, response>>

\* Lines 166-183: the page with both charts and the table.
Render(r) ==
  /\ pc[r] = "render"
  /\ response' = [response EXCEPT ![r] =
                    [status |-> "ok", table |-> parsed_and_scored_news[r],
                     hourly |-> fig_hourly[r], daily |-> fig_daily[r]]]
  /\ pc' = [pc EXCEPT ![r] = "responded"]
  /\ UNCHANGED <<news_table, i, date, parsed_news, df, parsed_news_df,
                 parsed_and_scored_news, fig_hourly, fig_daily, error>>

\* An exception that leaves sentiment (nothing in lines 157-183 catches one):
\* the request ends in an error response, with nothing rendered.
Abort(r) ==
  /\ pc[r] = "failed"
  /\ response' = [response EXCEPT ![r] =
                    [status |-> "error", table |-> <<>>, hourly |-> <<>>,
                     daily |-> <<>>]]
  /\ pc' = [pc EXCEPT ![r] = "responded"]
  /\ UNCHANGED <<news_table, i, date, parsed_news, df, parsed_news_df,
                 parsed_and_scored_news, fig_hourly, fig_daily, error>>

\* The response is sent and the locals of sentiment are gone.
Finish(r) ==
  /\ pc[r] = "responded"
  /\ pc' = [pc EXCEPT ![r] = "idle"]
  /\ news_table' = [news_table EXCEPT ![r] = <<>>]
  /\ parsed_news_df' = [parsed_news_df EXCEPT ![r] = NoFrame]
  /\ parsed_and_scored_news' = [parsed_and_scored_news EXCEPT ![r] = <<>>]
  /\ fig_hourly' = [fig_hourly EXCEPT ![r] = <<>>]
  /\ fig_daily' = [fig_daily EXCEPT ![r] = <<>>]
  /\ error' = [error EXCEPT ![r] = NoError]
  /\ response' = [response EXCEPT ![r] = NoResponse]
  /\ UNCHANGED <<i, date, parsed_news, df>>

Step(r, pages, threaded) ==
  \/ GetNews(r, pages, threaded)
  \/ ParseRow(r)
  \/ ParseReturn(r)
  \/ ScoreNews(r)
  \/ PlotHourlySentiment(r)
  \/ PlotDailySentiment(r)
  \/ Render(r)
  \/ Abort(r)
  \/ Finish(r)

\* One request at a time (app.run() of a server that is not threaded).
Next == \E r \in Requests : Step(r, Pages, FALSE)
Spec == Init /\ [][Next]_vars

\* Requests served by concurrent threads, their steps interleaved.
NextConc == \E r \in Requests : Step(r, PagesConc, TRUE)
SpecConc == Init /\ [][NextConc]_vars

\* ------------------------------------------------ a request run on its own
RECURSIVE ParseLoop(_, _, _, _)
\* Lines 64-81 over rows k..n of the table, from the locals loc: the locals at
\* the loop's end, or at the exception that left it.
ParseLoop(table, k, n, loc) ==
  IF k > n THEN Raise(loc.date, loc.parsed_news, loc.df, "none", 0)
  ELSE LET out == RowBody(loc.date, loc.parsed_news, loc.df, table[k])
       IN  IF out.exc = "none" \/ Recovered(out.exc)
           THEN ParseLoop(table, k + 1, n,
                          [date |-> out.date, parsed_news |-> out.parsed_news,
                           df |-> out.df])
           ELSE out

\* parse_news(news_table): the frame it returns, or the exception it raises.
ParseNews(table) ==
  LET end == ParseLoop(table, 1, Len(table), ParseNewsEntry)
  IN  IF end.exc # "none"
      THEN [df |-> NoFrame, error |-> [exc |-> end.exc, line |-> end.line]]
      ELSE IF end.df.bound
      THEN [df |-> end.df, error |-> NoError]
      ELSE [df |-> NoFrame,
            error |-> [exc |-> "UnboundLocalError", line |-> 83]]

\* sentiment() on a fetched table, run with nothing else going on: its response
\* and the exception that ended it.
Sentiment(table) ==
  LET parsed == ParseNews(table)
      scored == JoinScores(parsed.df, Scores(parsed.df))
  IN  IF parsed.error.exc # "none"
      THEN [response |-> [status |-> "error", table |-> <<>>,
                          hourly |-> <<>>, daily |-> <<>>],
            error |-> parsed.error]
      ELSE [response |-> [status |-> "ok", table |-> scored,
                          hourly |-> HourlyMeans(scored),
                          daily |-> DailyMeans(scored)],
            error |-> NoError]

\* ------------------------------------------------------------- the claims
\* Vocabulary of the claims, read off the table's rows alone.
Tokens(x) == Split(x.td)
\* A row the handler of line 80 skips: no link, or no date/time cell.
Skipped(x) == x.a = NoLink \/ x.td = NoCell
\* A row with a link and a time.
Accepted(x) == ~Skipped(x) /\ Len(Tokens(x)) >= 1
\* An accepted row that carries an explicit date.
Dated(x) == Accepted(x) /\ Len(Tokens(x)) >= 2
TimeToken(x) == IF Len(Tokens(x)) = 1 THEN Tokens(x)[1] ELSE Tokens(x)[2]

\* The indexes of the accepted rows, in encounter order.
AcceptedIdx(table) ==
  SelectSeq([j \in 1..Len(table) |-> j], LAMBDA j : Accepted(table[j]))

\* The most recent dated accepted row at or before row j (0: there is none).
LastDated(table, j) ==
  LET S == { m \in 1..j : Dated(table[m]) }
  IN  IF S = {} THEN 0 ELSE CHOOSE m \in S : \A q \in S : q <= m

\* The timestamp the table gives row j: its own time on the carried date.
StampOf(table, j) ==
  ToDatetime(Tokens(table[LastDated(table, j)])[1], TimeToken(table[j]))

\* The frame fr holds the accepted rows of the table, each with its timestamp.
CarriesDates(fr, table) ==
  LET acc == AcceptedIdx(table)
  IN  /\ Len(fr.rows) = Len(acc)
      /\ Len(fr.datetime) = Len(acc)
      /\ \A k \in 1..Len(acc) :
           /\ LastDated(table, acc[k]) > 0
           /\ fr.rows[k].date = Tokens(table[LastDated(table, acc[k])])[1]
           /\ fr.rows[k].time = TimeToken(table[acc[k]])
           /\ fr.datetime[k] = StampOf(table, acc[k])

InFlight(r) == pc[r] # "idle"
PastParse(r) == pc[r] \notin {"idle", "parse"}

\* C1: whenever parse_news has built a frame (inside the loop, over the rows
\* read so far, and after its return, over the whole table), each record's
\* timestamp is the row's own time on the date of the most recent accepted
\* dated row at or before it; skipped rows and one-token rows leave the
\* carried date alone.
C1_CarryForward ==
  \A r \in Requests :
    /\ (pc[r] = "parse" /\ df[r].bound) =>
          CarriesDates(df[r], SubSeq(news_table[r], 1, i[r] - 1))
    /\ parsed_news_df[r].bound =>
          CarriesDates(parsed_news_df[r], news_table[r])

\* C1 witness: a returned frame whose table has a dated accepted row, then a
\* skipped row showing another date, then a one-token row (which resolved to
\* the first date, on day 0).
C1_Witness ==
  \E r \in Requests :
    /\ parsed_news_df[r].bound
    /\ Len(news_table[r]) = 3
    /\ Dated(news_table[r][1]) /\ Tokens(news_table[r][1])[1] = "Dec-01-23"
    /\ news_table[r][2].a = NoLink
    /\ news_table[r][2].td # NoCell
    /\ Len(Tokens(news_table[r][2])) >= 2
    /\ Tokens(news_table[r][2])[1] = "Dec-03-23"
    /\ Accepted(news_table[r][3]) /\ Len(Tokens(news_table[r][3])) = 1
    /\ parsed_news_df[r].datetime[2] < MinutesPerDay

\* The first accepted row of the table (0: there is none).
FirstAccepted(table) ==
  LET S == { j \in 1..Len(table) : Accepted(table[j]) }
  IN  IF S = {} THEN 0 ELSE CHOOSE j \in S : \A q \in S : j <= q

\* C2: when the first accepted row has a one-token cell, the request fails
\* whatever follows: no frame is returned, nothing is scored or rendered; and
\* unless a row with a link and a blank cell precedes it (which raises first),
\* the error is the unbound `date` at line 75.
C2_MissingAnchor ==
  \A r \in Requests :
    LET t == news_table[r]
        f == FirstAccepted(t)
    IN  (PastParse(r) /\ f > 0 /\ Len(Tokens(t[f])) = 1) =>
          /\ pc[r] \in {"failed", "responded"}
          /\ error[r].exc # "none"
          /\ ~parsed_news_df[r].bound
          /\ parsed_and_scored_news[r] = <<>>
          /\ response[r].status # "ok"
          /\ response[r].table = <<>>
          /\ (\A j \in 1..(f - 1) : Skipped(t[j])) =>
                error[r] = [exc |-> "UnboundLocalError", line |-> 75]

\* C2 witness: the failure at line 75 with a dated row later in the table.
C2_Witness ==
  \E r \in Requests :
    /\ pc[r] = "responded"
    /\ response[r].status = "error"
    /\ error[r] = [exc |-> "UnboundLocalError", line |-> 75]
    /\ Len(news_table[r]) >= 2
    /\ Len(Tokens(news_table[r][1])) = 1 /\ Accepted(news_table[r][1])
    /\ Dated(news_table[r][2])

\* The rows with a link and a time would parse on their own: there is one,
\* the first is dated, and every date and time among them can be parsed.
GoodRows(table) ==
  /\ FirstAccepted(table) > 0
  /\ Dated(table[FirstAccepted(table)])
  /\ \A j \in 1..Len(table) :
       Accepted(table[j]) =>
         /\ MinuteOf(TimeToken(table[j])) >= 0
         /\ Dated(table[j]) => DayOf(Tokens(table[j])[1]) >= 0

\* C3 (as claimed): a row without a link, without a cell or with a cell that
\* has no token is skipped without an error, and every other row yields its
\* headline, in encounter order.
C3_MalformedDropped ==
  \A r \in Requests :
    (PastParse(r) /\ GoodRows(news_table[r])) =>
       /\ error[r].exc = "none"
       /\ parsed_news_df[r].bound
       /\ LET acc == AcceptedIdx(news_table[r])
          IN  /\ Len(parsed_news_df[r].rows) = Len(acc)
              /\ \A k \in 1..Len(acc) :
                   parsed_news_df[r].rows[k].headline = news_table[r][acc[k]].a

\* Some accepted row's date and time do not parse.
HasBadStamp(table) ==
  \E j \in 1..Len(table) :
    /\ Accepted(table[j])
    /\ LastDated(table, j) > 0
    /\ ~Parseable(Tokens(table[LastDated(table, j)])[1], TimeToken(table[j]))

\* C4: a table with an accepted row whose date and time do not parse never
\* gets past parse_news: no frame is returned, nothing is scored, aggregated or
\* rendered, and the request ends in an error response; the ValueError of line
\* 78 is raised only for such a table and is never recovered.
C4_MalformedAborts ==
  \A r \in Requests :
    /\ (InFlight(r) /\ HasBadStamp(news_table[r])) =>
          /\ pc[r] \in {"parse", "failed", "responded"}
          /\ ~parsed_news_df[r].bound
          /\ parsed_and_scored_news[r] = <<>>
          /\ fig_hourly[r] = <<>> /\ fig_daily[r] = <<>>
          /\ response[r].status # "ok"
          /\ response[r].table = <<>>
          /\ pc[r] = "responded" =>
                (response[r].status = "error" /\ error[r].exc # "none")
    /\ error[r].exc = "ValueError" =>
          (HasBadStamp(news_table[r]) /\ error[r].line = 78
           /\ pc[r] \in {"failed", "responded"})

\* C4 witness: the request failed on line 78 after a first row that parsed.
C4_Witness ==
  \E r \in Requests :
    /\ pc[r] = "responded"
    /\ response[r].status = "error"
    /\ error[r] = [exc |-> "ValueError", line |-> 78]
    /\ Len(news_table[r]) >= 2
    /\ Dated(news_table[r][1])
    /\ Parseable(Tokens(news_table[r][1])[1], TimeToken(news_table[r][1]))

\* The rendered responses.
Rendered(r) == response[r].status = "ok"
Starts(buckets) == { buckets[b].bucket_start : b \in 1..Len(buckets) }
Floors(scored, freq) ==
  { Floor(scored[k].datetime, freq) : k \in 1..Len(scored) }
\* The rows of the table whose timestamp floors to `start`.
InBucket(scored, start, freq) ==
  { k \in 1..Len(scored) : Floor(scored[k].datetime, freq) = start }

\* C5 (as claimed): the bucket starts of the hourly and of the daily output are
\* exactly the distinct floors of the headline timestamps.
C5_OnlyPopulatedBuckets ==
  \A r \in Requests :
    Rendered(r) =>
      /\ Starts(response[r].hourly) = Floors(response[r].table, MinutesPerHour)
      /\ Starts(response[r].daily) = Floors(response[r].table, MinutesPerDay)

\* Every interval of width freq from the first floor to the last has exactly
\* one bucket, in ascending order; a bucket's mean is defined exactly when some
\* timestamp floors to its start.
CoversRange(buckets, scored, freq) ==
  LET fl == Floors(scored, freq)
  IN  /\ \A b \in 1..Len(buckets) :
           /\ \E lo \in fl : lo <= buckets[b].bucket_start
           /\ \E hi \in fl : buckets[b].bucket_start <= hi
           /\ \E lo \in fl : (buckets[b].bucket_start - lo) % freq = 0
           /\ buckets[b].mean.nan <=> buckets[b].bucket_start \notin fl
           /\ b > 1 => buckets[b].bucket_start
                          = buckets[b - 1].bucket_start + freq
      /\ fl \subseteq Starts(buckets)

\* C5 (amended): the hourly and daily outputs hold one bucket for every hour
\* (day) from the earliest floor to the latest, populated or not; the buckets
\* with a defined mean are exactly the distinct floors, the others are NaN.
C5_BucketsCoverRange ==
  \A r \in Requests :
    Rendered(r) =>
      /\ CoversRange(response[r].hourly, response[r].table, MinutesPerHour)
      /\ CoversRange(response[r].daily, response[r].table, MinutesPerDay)

\* C5 witness: a rendered response with an empty hour between two populated
\* hours of one day, and an empty day between two populated days.
C5_Witness ==
  \E r \in Requests :
    /\ Rendered(r)
    /\ \E b \in 2..(Len(response[r].daily) - 1) : response[r].daily[b].mean.nan
    /\ \E b \in 2..(Len(response[r].hourly) - 1) :
         /\ response[r].hourly[b].mean.nan
         /\ ~response[r].hourly[b - 1].mean.nan
         /\ ~response[r].hourly[b + 1].mean.nan

\* C6: each hourly bucket that has a headline holds the exact mean of the
\* scores of the headlines flooring to its hour (mean * count = sum), and every
\* headline lies in exactly one hourly bucket, the one of its own hour.
C6_HourlyMean ==
  \A r \in Requests :
    Rendered(r) =>
      LET sc == response[r].table
          hs == response[r].hourly
      IN  /\ \A b \in 1..Len(hs) :
               LET S == InBucket(sc, hs[b].bucket_start, MinutesPerHour)
               IN  S # {} =>
                     /\ ~hs[b].mean.nan
                     /\ hs[b].mean.den > 0
                     /\ hs[b].mean.num * Cardinality(S)
                          = SumOver(sc, S) * hs[b].mean.den
          /\ \A k \in 1..Len(sc) :
               Cardinality({ b \in 1..Len(hs) :
                  hs[b].bucket_start
                     = Floor(sc[k].datetime, MinutesPerHour) }) = 1

\* C6 witness: an hour with two headlines of different scores and a mean that
\* is no whole number, next to another populated hour.
C6_Witness ==
  \E r \in Requests :
    /\ Rendered(r)
    /\ \E b, c \in 1..Len(response[r].hourly) :
         /\ b # c
         /\ ~response[r].hourly[c].mean.nan
         /\ response[r].hourly[b].mean.den = 2
         /\ Cardinality(InBucket(response[r].table,
               response[r].hourly[b].bucket_start, MinutesPerHour)) = 2

\* The populated hourly buckets of the day starting at `day`.
HoursOf(hs, day) ==
  { b \in 1..Len(hs) : /\ ~hs[b].mean.nan
                       /\ Floor(hs[b].bucket_start, MinutesPerDay) = day }
HourCount(sc, hs, b) ==
  Cardinality(InBucket(sc, hs[b].bucket_start, MinutesPerHour))
\* The score sum of an hourly bucket, from its mean and its count.
HourSum(sc, hs, b) == (hs[b].mean.num * HourCount(sc, hs, b)) \div hs[b].mean.den

RECURSIVE TotalCount(_, _, _)
\* The sum of the counts of the hourly buckets in B.
TotalCount(sc, hs, B) ==
  IF B = {} THEN 0
  ELSE LET b == CHOOSE x \in B : TRUE
       IN  HourCount(sc, hs, b) + TotalCount(sc, hs, B \ {b})

RECURSIVE TotalSum(_, _, _)
\* The sum of the score sums of the hourly buckets in B.
TotalSum(sc, hs, B) ==
  IF B = {} THEN 0
  ELSE LET b == CHOOSE x \in B : TRUE
       IN  HourSum(sc, hs, b) + TotalSum(sc, hs, B \ {b})

\* C7: each daily bucket covers the headlines of the hourly buckets of its
\* day: its count is the sum of their counts, and its mean times that count is
\* the sum of their sums (the count-weighted mean of the hourly means); every
\* headline's day has a daily bucket.
C7_DailyIsCoarser ==
  \A r \in Requests :
    Rendered(r) =>
      LET sc == response[r].table
          hs == response[r].hourly
          ds == response[r].daily
      IN  /\ \A d \in 1..Len(ds) :
               LET day == ds[d].bucket_start
                   H == HoursOf(hs, day)
                   n == Cardinality(InBucket(sc, day, MinutesPerDay))
               IN  /\ day % MinutesPerDay = 0
                   /\ n = TotalCount(sc, hs, H)
                   /\ ds[d].mean.nan <=> n = 0
                   /\ n > 0 => ds[d].mean.num * n
                                 = ds[d].mean.den * TotalSum(sc, hs, H)
          /\ Floors(sc, MinutesPerDay) \subseteq Starts(ds)

\* C7 witness: a day with two populated hours, of two headlines and of one,
\* whose daily mean differs from the plain mean of the two hourly means.
C7_Witness ==
  \E r \in Requests :
    /\ Rendered(r)
    /\ \E d \in 1..Len(response[r].daily) :
         LET hs == response[r].hourly
             m == response[r].daily[d].mean
             H == HoursOf(hs, response[r].daily[d].bucket_start)
         IN  \E b, c \in H :
               /\ H = {b, c} /\ b # c
               /\ HourCount(response[r].table, hs, b) = 2
               /\ HourCount(response[r].table, hs, c) = 1
               /\ m.num * 2 * hs[b].mean.den * hs[c].mean.den
                    # m.den * (hs[b].mean.num * hs[c].mean.den
                               + hs[c].mean.num * hs[b].mean.den)

\* The scored table holds the accepted rows of the table in order, each with
\* its own headline, its own timestamp and its own headline's scores.
Aligned(scored, table) ==
  LET acc == AcceptedIdx(table)
  IN  /\ Len(scored) = Len(acc)
      /\ \A k \in 1..Len(acc) :
           /\ scored[k].headline = table[acc[k]].a
           /\ LastDated(table, acc[k]) > 0
           /\ scored[k].datetime = StampOf(table, acc[k])
           /\ scored[k].sentiment_score
                = PolarityScores(table[acc[k]].a).compound
           /\ scored[k].neg = PolarityScores(table[acc[k]].a).neg
           /\ scored[k].neu = PolarityScores(table[acc[k]].a).neu
           /\ scored[k].pos = PolarityScores(table[acc[k]].a).pos

\* C8: once score_news has run, and in the rendered table, there is exactly
\* one record per accepted row, in encounter order, the k-th with the k-th
\* accepted row's headline, timestamp and scores.
C8_PositionalAlignment ==
  \A r \in Requests :
    /\ pc[r] \in {"hourly", "daily", "render"} =>
          Aligned(parsed_and_scored_news[r], news_table[r])
    /\ Rendered(r) => Aligned(response[r].table, news_table[r])

\* C8 witness: a rendered table of two records with two different headlines
\* and different timestamps, from a table that also had a skipped row.
C8_Witness ==
  \E r \in Requests :
    /\ Rendered(r)
    /\ Len(response[r].table) = 2
    /\ Len(news_table[r]) = 3
    /\ response[r].table[1].headline # response[r].table[2].headline
    /\ response[r].table[1].datetime # response[r].table[2].datetime

\* C9: with the requests' steps interleaved in any order, a request that has
\* responded gives the response (table, hourly and daily buckets, or error)
\* that sentiment gives on its table run alone, and while it parses its carried
\* date, row list and frame are those of the rows it has read itself.
C9_RequestIsolation ==
  \A r \in Requests :
    /\ pc[r] = "responded" =>
          /\ response[r] = Sentiment(news_table[r]).response
          /\ error[r] = Sentiment(news_table[r]).error
    /\ pc[r] = "parse" =>
          LET own == ParseLoop(news_table[r], 1, i[r] - 1, ParseNewsEntry)
          IN  /\ own.exc = "none"
              /\ date[r] = own.date
              /\ parsed_news[r] = own.parsed_news
              /\ df[r] = own.df

\* C9 witness: both requests have responded while the other was in flight:
\* one rendered two records, the second on the carried date, the other failed
\* on a table that opens with an undated row.
C9_Witness ==
  /\ pc[1] = "responded" /\ pc[2] = "responded"
  /\ response[1].status = "ok" /\ response[2].status = "error"
  /\ Len(response[1].table) = 2
  /\ Len(Tokens(news_table[1][2])) = 1
  /\ Len(news_table[2]) = 2
  /\ Len(Tokens(news_table[2][1])) = 1

\* C10: when the table has no row, or the handler skipped every row, the
\* request fails on the unbound name parsed_news_df at the return of parse_news
\* (line 83) and nothing is rendered; a frame is returned only with at least
\* one accepted row in it.
C10_NoRowsFails ==
  \A r \in Requests :
    /\ (PastParse(r) /\ \A j \in 1..Len(news_table[r]) :
                           Skipped(news_table[r][j])) =>
          /\ error[r] = [exc |-> "UnboundLocalError", line |-> 83]
          /\ pc[r] \in {"failed", "responded"}
          /\ ~parsed_news_df[r].bound
          /\ response[r].status # "ok"
    /\ parsed_news_df[r].bound =>
          /\ Len(parsed_news_df[r].rows) >= 1
          /\ FirstAccepted(news_table[r]) > 0

\* C10 witness: an error response for line 83 on a table whose rows were all
\* skipped, one for the missing link and one for the missing cell.
C10_Witness ==
  \E r \in Requests :
    /\ pc[r] = "responded"
    /\ response[r].status = "error"
    /\ error[r].line = 83
    /\ Len(news_table[r]) >= 2
    /\ news_table[r][1].a = NoLink
    /\ news_table[r][2].a # NoLink /\ news_table[r][2].td = NoCell

====
